---- MODULE Spec2Model ----
(***************************************************************************)
(* Model of the indt crate (src/src/lib.rs): struct Indent, a writer that  *)
(* wraps an io::Write sink and prefixes lines with current_indent copies   *)
(* of indent_symbol.  Bytes are numbers 0..255 (u8); byte strings are      *)
(* sequences of bytes.                                                     *)
(***************************************************************************)
EXTENDS Integers, Sequences, FiniteSets, TLC

VARIABLES
    output,          \* bytes held by the sink behind `output: &mut dyn io::Write`
    indent_step,     \* Indent.indent_step : u8
    indent_symbol,   \* Indent.indent_symbol : char (a code point)
    current_indent,  \* Indent.current_indent : u8
    first_line,      \* Indent.first_line : bool
    indented,        \* history: indented[i] iff output[i] was emitted by write_indent
    written,         \* history: concatenation of the inputs of the writes that returned Ok
    last,            \* history: the last call, the state before it and what it returned
    mores,           \* history: number of more() calls so far, -1 once less() was called
    writes,          \* history: number of write() calls so far
    script,          \* the caller: the calls a scripted caller makes, in order
    pc               \* the caller: number of calls of the script already made

vars == <<output, indent_step, indent_symbol, current_indent, first_line,
          indented, written, last, mores, writes, script, pc>>

writer == <<indent_step, indent_symbol, current_indent, first_line>>
caller == <<script, pc>>

----------------------------------------------------------------------------
(* Program constants *)

U8_MAX == 255
U8_MIN == 0
NL == 10
DefaultStep == 4
DefaultSymbol == 32

(* Bounds of the model *)

MaxDepth == 2     \* Spec: more() is called only while the result stays <= MaxDepth
MaxTotal == 4     \* Spec: the write inputs have at most MaxTotal bytes in all
MaxWrites == 2    \* Spec: at most MaxWrites calls of write
MaxChunk == 3     \* the inputs split in two chunks have at most MaxChunk bytes
MaxMores == 256   \* SpecDepth: at most MaxMores calls of more() before the first less()

Steps == {0, 1, 2}      \* Spec: the values of indent_step
Symbols == {46, 233}    \* '.' and U+00E9 (two bytes in UTF-8)
Content == {97, NL}     \* bytes the unscripted caller writes: 'a' and '\n'

----------------------------------------------------------------------------
(* Helpers *)

Min(a, b) == IF a <= b THEN a ELSE b
Max(a, b) == IF a >= b THEN a ELSE b

AsU8(n) == n % 256

\* all byte strings over S of length at most n
RECURSIVE StringsUpTo(_, _)
StringsUpTo(S, n) ==
    IF n = 0 THEN {<< >>}
    ELSE LET shorter == StringsUpTo(S, n - 1)
         IN  shorter \cup {Append(s, b) : s \in shorter, b \in S}

\* n copies of the byte string bs
Repeat(bs, n) == [i \in 1..(n * Len(bs)) |-> bs[((i - 1) % Len(bs)) + 1]]

\* UTF-8 encoding of a code point below U+0800, as `write!(w, "{}", c)` writes a char
Utf8(c) ==
    IF c < 128 THEN <<c>>
    ELSE <<192 + (c \div 64), 128 + (c % 64)>>

\* s.split_terminator(..): a newline that ends the input opens no last segment
RECURSIVE split_terminator(_)
split_terminator(s) ==
    IF \E i \in 1..Len(s) : s[i] = NL
    THEN LET i == CHOOSE k \in 1..Len(s) :
                      s[k] = NL /\ \A j \in 1..(k - 1) : s[j] # NL
         IN  IF i = Len(s) THEN <<SubSeq(s, 1, i - 1)>>
             ELSE <<SubSeq(s, 1, i - 1)>> \o split_terminator(SubSeq(s, i + 1, Len(s)))
    ELSE <<s>>

\* s.split(|x| *x == b'\n'): the segments between newlines, at least one
RECURSIVE split(_)
split(s) ==
    IF \E i \in 1..Len(s) : s[i] = NL
    THEN LET i == CHOOSE k \in 1..Len(s) :
                      s[k] = NL /\ \A j \in 1..(k - 1) : s[j] # NL
         IN  <<SubSeq(s, 1, i - 1)>> \o split(SubSeq(s, i + 1, Len(s)))
    ELSE <<s>>

----------------------------------------------------------------------------
(* The sink.  A call of the sink's write either accepts every byte offered *)
(* or fails; the fail-th call made during one call of Indent::write (or    *)
(* flush) fails, fail = 0 meaning that none does.  A run w of Indent::write*)
(* carries the sink, the flag, the count of accepted bytes, the number of  *)
(* sink calls made and whether a `?` has returned early.                   *)

SinkWrite(w, bytes, isIndent, fail) ==
    IF w.err THEN w
    ELSE IF w.calls + 1 = fail
         THEN [w EXCEPT !.calls = @ + 1, !.err = TRUE]
         ELSE [w EXCEPT !.calls = @ + 1,
                        !.out = @ \o bytes,
                        !.ind = @ \o [i \in 1..Len(bytes) |-> isIndent],
                        !.n = Len(bytes)]

\* for _ in 0..self.current_indent { write!(self.output, "{}", self.indent_symbol)?; }
\* k iterations of the body in sequence: the first half of them, then the rest
RECURSIVE IndentLoop(_, _, _, _)
IndentLoop(w, k, symbol, fail) ==
    IF k = 0 \/ w.err THEN w
    ELSE IF k = 1 THEN SinkWrite(w, Utf8(symbol), TRUE, fail)
    ELSE IndentLoop(IndentLoop(w, k \div 2, symbol, fail),
                    k - (k \div 2), symbol, fail)

\* a loop that starts at 1: one symbol too few
write_indent_short(w, depth, symbol, fail) ==
    IndentLoop(w, Max(depth - 1, 0), symbol, fail)

\* an inclusive range 0..=current_indent: one symbol too many
write_indent_inclusive(w, depth, symbol, fail) ==
    IndentLoop(w, depth + 1, symbol, fail)

\* the indentation bytes added to the count of accepted bytes
write_indent_counted(w, depth, symbol, fail) ==
    LET r == IndentLoop(w, depth, symbol, fail)
    IN  IF r.err THEN r ELSE [r EXCEPT !.printed = @ + depth * Len(Utf8(symbol))]

write_indent(w, depth, symbol, fail) == IndentLoop(w, depth, symbol, fail)

\* printed += self.output.write(bytes)?;
Printed(w, bytes, fail) ==
    LET r == SinkWrite(w, bytes, FALSE, fail)
    IN  IF r.err THEN r ELSE [r EXCEPT !.printed = @ + r.n]

\* the loop body without the is_empty test: every line is indented at once
LineStepEager(w, line, depth, symbol, fail) ==
    LET w1 == Printed(w, <<NL>>, fail)
        w2 == write_indent(w1, depth, symbol, fail)
    IN  Printed(w2, line, fail)

\* the loop body without `self.first_line = true`: an empty line defers nothing
LineStepNoDefer(w, line, depth, symbol, fail) ==
    LET w1 == Printed(w, <<NL>>, fail)
    IN  IF line # << >>
        THEN Printed(write_indent(w1, depth, symbol, fail), line, fail)
        ELSE w1

\* the body of `for line in splitted`
LineStep(w, line, depth, symbol, fail) ==
    LET w1 == Printed(w, <<NL>>, fail)
    IN  IF w1.err THEN w1
        ELSE IF line # << >>
             THEN LET w2 == write_indent(w1, depth, symbol, fail)
                  IN  IF w2.err THEN w2 ELSE Printed(w2, line, fail)
             ELSE [w1 EXCEPT !.first = TRUE]

RECURSIVE LineLoop(_, _, _, _, _, _)
LineLoop(w, segs, i, depth, symbol, fail) ==
    IF i > Len(segs) \/ w.err THEN w
    ELSE LineLoop(LineStep(w, segs[i], depth, symbol, fail),
                  segs, i + 1, depth, symbol, fail)

\* Indent::write without `self.first_line = false`
WriteRunKeepFlag(out, ind, first, depth, symbol, s, fail) ==
    LET w0 == [out |-> out, ind |-> ind, first |-> first,
               printed |-> 0, n |-> 0, calls |-> 0, err |-> FALSE]
        w1 == IF first THEN write_indent(w0, depth, symbol, fail) ELSE w0
        segs == split(s)
        w2 == Printed(w1, segs[1], fail)
    IN  LineLoop(w2, segs, 2, depth, symbol, fail)

\* Indent::write as a function of the writer, the sink and the input
WriteRun(out, ind, first, depth, symbol, s, fail) ==
    LET w0 == [out |-> out, ind |-> ind, first |-> first,
               printed |-> 0, n |-> 0, calls |-> 0, err |-> FALSE]
        w1 == IF first
              THEN LET wi == write_indent(w0, depth, symbol, fail)
                   IN  IF wi.err THEN wi ELSE [wi EXCEPT !.first = FALSE]
              ELSE w0
        segs == split(s)
        w2 == Printed(w1, segs[1], fail)
    IN  LineLoop(w2, segs, 2, depth, symbol, fail)

----------------------------------------------------------------------------
(* Operations of Indent *)

\* last.prev when no write has returned Ok since construction or the last failed write
None == <<-1>>

NoCall == [op |-> "new", s |-> << >>, depth |-> 0, first |-> TRUE, len |-> 0,
           ret |-> 0, prev |-> None]

\* the input of the most recent write call, when it returned Ok
PrevInput ==
    IF last.op = "write"
    THEN IF last.ret >= 0 THEN last.s ELSE None
    ELSE last.prev

\* the record of a call: its input, the writer and the sink length before it, and
\* what it returned (the Ok count, 0 for a reference or Ok(()), below 0 for Err)
Call(op, s, ret) ==
    [op |-> op, s |-> s, depth |-> current_indent, first |-> first_line,
     len |-> Len(output), ret |-> ret, prev |-> PrevInput]

\* Indent::new(output, indent_step, indent_symbol) on an empty sink
new(step, symbol) ==
    /\ output = << >>
    /\ indent_step = step
    /\ indent_symbol = symbol
    /\ current_indent = 0
    /\ first_line = TRUE
    /\ indented = << >>
    /\ written = << >>
    /\ last = NoCall
    /\ mores = 0
    /\ writes = 0

\* Indent::from_writer(output)
from_writer == new(DefaultStep, DefaultSymbol)

\* a wrapping add in place of the saturating one
MoreIndentWrapping(depth, step) == AsU8(depth + step)

\* let next_indent = current_indent as u16 + indent_step as u16;
\* cmp::min(next_indent, u8::MAX as u16) as u8
MoreIndent(depth, step) == AsU8(Min(depth + step, U8_MAX))

\* more() that also starts a new line
more_newline ==
    /\ current_indent' = MoreIndent(current_indent, indent_step)
    /\ first_line' = TRUE
    /\ last' = Call("more", << >>, 0)
    /\ mores' = IF mores >= 0 THEN mores + 1 ELSE mores
    /\ UNCHANGED <<output, indent_step, indent_symbol, indented, written, writes>>

more ==
    /\ current_indent' = MoreIndent(current_indent, indent_step)
    /\ last' = Call("more", << >>, 0)
    /\ mores' = IF mores >= 0 THEN mores + 1 ELSE mores
    /\ UNCHANGED <<output, indent_step, indent_symbol, first_line, indented,
                   written, writes>>

\* one symbol less, whatever the step
LessIndentOne(depth, step) == AsU8(Max(depth - 1, U8_MIN))

\* a wrapping subtraction in place of the saturating one
LessIndentWrapping(depth, step) == AsU8(depth - step)

\* let next_indent = current_indent as i16 - indent_step as i16;
\* cmp::max(next_indent, u8::MIN as i16) as u8
LessIndent(depth, step) == AsU8(Max(depth - step, U8_MIN))

less ==
    /\ current_indent' = LessIndent(current_indent, indent_step)
    /\ last' = Call("less", << >>, 0)
    /\ mores' = -1
    /\ UNCHANGED <<output, indent_step, indent_symbol, first_line, indented,
                   written, writes>>

\* Indent::write with a sink rolled back when a call fails
write_rollback(s, fail) ==
    LET r == WriteRun(output, indented, first_line, current_indent,
                      indent_symbol, s, fail)
    IN  /\ fail = 0 \/ r.err
        /\ output' = IF r.err THEN output ELSE r.out
        /\ indented' = IF r.err THEN indented ELSE r.ind
        /\ first_line' = r.first
        /\ written' = IF r.err THEN written ELSE written \o s
        /\ last' = Call("write", s, IF r.err THEN -fail ELSE r.printed)
        /\ writes' = writes + 1
        /\ UNCHANGED <<indent_step, indent_symbol, current_indent, mores>>

\* <Indent as io::Write>::write(s); ret is the Ok count, or for Err the error of the
\* sink call that failed, written -k for the k-th sink call of this write
write(s, fail) ==
    LET r == WriteRun(output, indented, first_line, current_indent,
                      indent_symbol, s, fail)
    IN  /\ fail = 0 \/ r.err
        /\ output' = r.out
        /\ indented' = r.ind
        /\ first_line' = r.first
        /\ written' = IF r.err THEN written ELSE written \o s
        /\ last' = Call("write", s, IF r.err THEN -fail ELSE r.printed)
        /\ writes' = writes + 1
        /\ UNCHANGED <<indent_step, indent_symbol, current_indent, mores>>

\* flush() that also starts a new line
flush_newline(fail) ==
    /\ last' = Call("flush", << >>, IF fail = 0 THEN 0 ELSE -1)
    /\ first_line' = TRUE
    /\ UNCHANGED <<output, indent_step, indent_symbol, current_indent,
                   indented, written, mores, writes>>

\* <Indent as io::Write>::flush(): self.output.flush()
flush(fail) ==
    /\ last' = Call("flush", << >>, IF fail = 0 THEN 0 ELSE -1)
    /\ UNCHANGED <<output, indent_step, indent_symbol, current_indent,
                   first_line, indented, written, mores, writes>>

----------------------------------------------------------------------------
(* Spec: a caller that makes any calls, on a sink that never fails *)

Inputs == StringsUpTo(Content, MaxTotal - Len(written))

Init ==
    /\ \E step \in Steps, symbol \in Symbols : new(step, symbol)
    /\ script = << >>
    /\ pc = 0

CallMore ==
    /\ current_indent + indent_step <= MaxDepth
    /\ mores < MaxDepth
    /\ more
    /\ UNCHANGED caller

CallLess ==
    /\ less
    /\ UNCHANGED caller

CallWrite ==
    /\ writes < MaxWrites
    /\ \E s \in Inputs : write(s, 0)
    /\ UNCHANGED caller

CallFlush ==
    /\ flush(0)
    /\ UNCHANGED caller

Next == CallMore \/ CallLess \/ CallWrite \/ CallFlush

Spec == Init /\ [][Next]_vars

----------------------------------------------------------------------------
(* SpecDepth: a caller that only calls more() and less(), for every step *)

InitDepth ==
    /\ \E step \in 0..U8_MAX : new(step, DefaultSymbol)
    /\ script = << >>
    /\ pc = 0

DepthMore ==
    /\ mores < MaxMores
    /\ more
    /\ UNCHANGED caller

DepthLess ==
    /\ less
    /\ UNCHANGED caller

NextDepth == DepthMore \/ DepthLess

SpecDepth == InitDepth /\ [][NextDepth]_vars

----------------------------------------------------------------------------
(* SpecScript: the callers of the tests; the one-line test for every step *)

W(s) == [op |-> "write", s |-> s]
M == [op |-> "more", s |-> << >>]
L == [op |-> "less", s |-> << >>]

Line1 == <<49, 32, 102, 105, 114, 115, 116, 32, 108, 105, 110, 101, 10>>
Line2 == <<115, 101, 99, 111, 110, 100, 32, 108, 105, 110, 101, 10>>
Line3 == <<116, 104, 105, 114, 100, 32, 108, 105, 110, 101, 10>>
Line4 == <<102, 111, 117, 114, 116, 104, 32, 108, 105, 110, 101, 10>>

\* tests::first_line_with_one_indent: more(); write "x"
FirstLineScript == <<M, W(<<120>>)>>
\* tests::multiple_lines, its first four lines
MultipleLinesScript == <<W(Line1), M, W(Line2), M, M, W(Line3), L, W(Line4)>>
\* tests::empty_lines: more(); write "a\n\nb"
EmptyLinesScript == <<M, W(<<97, NL, NL, 98>>)>>
\* tests::multiple_lines, its fifth line: write "a"; write "b"
ContinuationScript == <<M, W(<<97>>), W(<<98>>)>>
\* tests::custom_indent: more(); write "a\n"; more(); write "b"
ResumeScript == <<M, W(<<97, NL>>), M, W(<<98>>)>>

Scripts == {FirstLineScript, MultipleLinesScript, EmptyLinesScript,
            ContinuationScript, ResumeScript}

InitScript ==
    /\ \/ /\ script = FirstLineScript
          /\ \E step \in 0..U8_MAX, symbol \in Symbols : new(step, symbol)
       \/ /\ script \in Scripts
          /\ \/ from_writer
             \/ \E step \in Steps, symbol \in Symbols : new(step, symbol)
    /\ pc = 0

ScriptMore ==
    /\ pc < Len(script)
    /\ script[pc + 1].op = "more"
    /\ more
    /\ pc' = pc + 1
    /\ UNCHANGED script

ScriptLess ==
    /\ pc < Len(script)
    /\ script[pc + 1].op = "less"
    /\ less
    /\ pc' = pc + 1
    /\ UNCHANGED script

ScriptWrite ==
    /\ pc < Len(script)
    /\ script[pc + 1].op = "write"
    /\ write(script[pc + 1].s, 0)
    /\ pc' = pc + 1
    /\ UNCHANGED script

NextScript == ScriptMore \/ ScriptLess \/ ScriptWrite

SpecScript == InitScript /\ [][NextScript]_vars

----------------------------------------------------------------------------
(* SpecFail: a caller that makes any calls, on a sink whose calls may fail; *)
(* like the tests, which unwrap every result, it stops at the first Err     *)

\* the number of sink calls Indent::write(s) makes when none fails
SinkCalls(s) ==
    WriteRun(output, indented, first_line, current_indent, indent_symbol, s, 0).calls

\* Indent::new with the two-byte symbol U+00E9
InitFail ==
    /\ \E step \in Steps : new(step, 233)
    /\ script = << >>
    /\ pc = 0

FailMore ==
    /\ last.ret >= 0
    /\ current_indent + indent_step <= MaxDepth
    /\ mores < MaxDepth
    /\ more
    /\ UNCHANGED caller

FailLess ==
    /\ last.ret >= 0
    /\ less
    /\ UNCHANGED caller

FailWrite ==
    /\ last.ret >= 0
    /\ writes < MaxWrites
    /\ \E s \in Inputs : \E fail \in 0..SinkCalls(s) : write(s, fail)
    /\ UNCHANGED caller

FailFlush ==
    /\ last.ret >= 0
    /\ \E fail \in {0, 1} : flush(fail)
    /\ UNCHANGED caller

NextFail == FailMore \/ FailLess \/ FailWrite \/ FailFlush

SpecFail == InitFail /\ [][NextFail]_vars

----------------------------------------------------------------------------
(* Properties *)

\* the indentation of depth d: d copies of the symbol, as bytes
Indentation(d) == Repeat(Utf8(indent_symbol), d)

\* the bytes and the marks the last call added to the sink
Emitted == SubSeq(output, last.len + 1, Len(output))
EmittedMarks == SubSeq(indented, last.len + 1, Len(output))

Ends(s, b) == s # << >> /\ s[Len(s)] = b
HasNL(s) == \E i \in 1..Len(s) : s[i] = NL
SymLen == Len(Utf8(indent_symbol))
WriteOk == last.op = "write" /\ last.ret >= 0

\* the place in the sink of the k-th content byte the last call emitted
ContentPos(k) ==
    CHOOSE p \in (last.len + 1)..Len(output) :
        /\ ~indented[p]
        /\ Cardinality({q \in (last.len + 1)..p : ~indented[q]}) = k

\* the place of the last content byte before place p of the sink, 0 if there is none
PrevContent(p) ==
    IF \E q \in 1..(p - 1) : ~indented[q]
    THEN CHOOSE q \in 1..(p - 1) :
             ~indented[q] /\ \A r \in (q + 1)..(p - 1) : indented[r]
    ELSE 0

\* the end of the run of indentation bytes that starts at place i of the emission
RunEnd(i) ==
    CHOOSE j \in i..Len(EmittedMarks) :
        /\ \A k \in i..j : EmittedMarks[k]
        /\ j = Len(EmittedMarks) \/ ~EmittedMarks[j + 1]

\* C1: on a fresh writer (s, c), increase() once and then write("x") leave the sink
\* holding exactly s copies of c followed by "x", for every step s and symbol c.
C1_FirstLineIndented ==
    (script = FirstLineScript /\ pc = 2) =>
        /\ output = Indentation(indent_step) \o <<120>>
        /\ Len(output) = indent_step * Len(Utf8(indent_symbol)) + 1

C1_Witness ==
    /\ script = FirstLineScript
    /\ pc = 2
    /\ indent_step = U8_MAX
    /\ indent_symbol = 233

\* C2: with step 4 and symbol ' ', write("1 first line\n"); increase();
\* write("second line\n"); increase(); increase(); write("third line\n"); decrease();
\* write("fourth line\n") leave the sink holding the four lines indented by 0, 4, 12
\* and 8 spaces, with nothing after the final newline.
C2_Expected ==
    Line1 \o Repeat(<<32>>, 4) \o Line2 \o Repeat(<<32>>, 12) \o Line3
          \o Repeat(<<32>>, 8) \o Line4

C2_MultipleLines ==
    (/\ script = MultipleLinesScript
     /\ pc = Len(MultipleLinesScript)
     /\ indent_step = DefaultStep
     /\ indent_symbol = DefaultSymbol) =>
        /\ output = C2_Expected
        /\ Len(output) = 72

C2_Witness ==
    /\ script = MultipleLinesScript
    /\ pc = 8
    /\ indent_step = 4
    /\ indent_symbol = 32
    /\ current_indent = 8

\* C3: within one write call consecutive newlines get no indentation between them
\* (an empty segment followed by another newline is not indented), and write("a\n\na")
\* on a fresh writer yields <indent>a\n\n<indent>a.
C3_BlankLineInCall ==
    WriteOk =>
        /\ \A k \in 1..(Len(last.s) - 1) :
               (last.s[k] = NL /\ last.s[k + 1] = NL) =>
                   ContentPos(k + 1) = ContentPos(k) + 1
        /\ (writes = 1 /\ last.len = 0 /\ last.s = <<97, NL, NL, 97>>) =>
               output = Indentation(last.depth) \o <<97, NL, NL>>
                            \o Indentation(last.depth) \o <<97>>

C3_Witness ==
    /\ WriteOk
    /\ writes = 1
    /\ last.len = 0
    /\ last.depth = 2
    /\ last.s = <<97, NL, NL, 97>>
    /\ Len(output) = 4 + 4 * SymLen

\* C4: after a write whose input holds no newline, the next write emits no
\* indentation before its first segment; write("a") then write("a") yield
\* <indent>aa, the indentation only before the first "a".
C4_LineContinuation ==
    (WriteOk /\ last.prev # None /\ ~HasNL(last.prev)) =>
        /\ ~last.first
        /\ LET seg == split(last.s)[1]
           IN  /\ SubSeq(Emitted, 1, Len(seg)) = seg
               /\ \A i \in 1..Len(seg) : ~EmittedMarks[i]
        /\ Emitted # << >> => ~EmittedMarks[1]
        /\ (writes = 2 /\ last.prev = <<97>> /\ last.s = <<97>>) =>
               /\ output = Indentation((Len(output) - 2) \div SymLen) \o <<97, 97>>
               /\ \A i \in 1..Len(output) : indented[i] <=> i <= Len(output) - 2

C4_Witness ==
    /\ WriteOk
    /\ writes = 2
    /\ last.prev = <<97>>
    /\ last.s = <<97>>
    /\ last.depth = 2
    /\ Len(output) = 2 + SymLen

\* C5: a write that ends with a newline defers the indentation of the following
\* line; the next write, when its first segment is not empty, emits exactly depth
\* copies of the symbol before that segment, with the depth current at that write;
\* every run of indentation has the length of depth when it is emitted; and
\* write("a\n") then write("a") yield <indent>a\n<indent>a.
C5_ResumeAfterNewline ==
    WriteOk =>
        /\ Ends(last.s, NL) =>
               /\ first_line
               /\ Ends(output, NL)
               /\ ~indented[Len(output)]
        /\ LET seg == split(last.s)[1]
               ind == Indentation(last.depth)
           IN  (last.prev # None /\ Ends(last.prev, NL) /\ seg # << >>) =>
                   /\ last.first
                   /\ SubSeq(Emitted, 1, Len(ind) + Len(seg)) = ind \o seg
                   /\ \A i \in 1..(Len(ind) + Len(seg)) :
                          EmittedMarks[i] <=> i <= Len(ind)
        /\ \A i \in 1..Len(EmittedMarks) :
               (EmittedMarks[i] /\ (i = 1 \/ ~EmittedMarks[i - 1])) =>
                   /\ RunEnd(i) - i + 1 = last.depth * SymLen
                   /\ SubSeq(Emitted, i, RunEnd(i)) = Indentation(last.depth)
        /\ (writes = 2 /\ last.prev = <<97, NL>> /\ last.s = <<97>>) =>
               output = Indentation((last.len - 2) \div SymLen) \o <<97, NL>>
                            \o Indentation(last.depth) \o <<97>>

C5_Witness ==
    /\ WriteOk
    /\ writes = 2
    /\ last.prev = <<97, NL>>
    /\ last.s = <<97>>
    /\ last.depth = 2
    /\ last.len = 2 + SymLen
    /\ Len(output) = 3 + 3 * SymLen

\* C6: increase() sets depth to min(depth + step, 255), never a wrapped value, and
\* N calls from depth 0 with N * step > 255 leave depth at exactly 255.
C6_MoreSaturates ==
    /\ current_indent \in 0..255
    /\ last.op = "more" =>
           /\ current_indent = Min(last.depth + indent_step, 255)
           /\ current_indent >= last.depth
    /\ (mores >= 0 /\ mores * indent_step > 255) => current_indent = 255
    /\ last.op = "new" =>
           \A d \in 0..255 : MoreIndent(d, indent_step) = Min(d + indent_step, 255)

C6_Witness ==
    /\ last.op = "more"
    /\ indent_step = 4
    /\ mores = 64
    /\ last.depth = 252

\* C7: decrease() sets depth to max(depth - step, 0), never negative or wrapped, and
\* at depth 0 it leaves depth at 0 and returns without error.
C7_LessSaturates ==
    /\ current_indent \in 0..255
    /\ last.op = "less" =>
           /\ current_indent = Max(last.depth - indent_step, 0)
           /\ current_indent <= last.depth
           /\ last.depth = 0 => current_indent = 0
           /\ last.ret = 0
    /\ last.op = "new" =>
           \A d \in 0..255 : LessIndent(d, indent_step) = Max(d - indent_step, 0)

C7_Witness ==
    /\ last.op = "less"
    /\ last.depth = 3
    /\ indent_step = 4
    /\ current_indent = 0

\* C8: a write call with an empty input emits no byte, leaves depth and the
\* line-start flag unchanged and returns 0, in every reachable state.
C8_EmptyWriteNoOp ==
    (last.op = "write" /\ last.s = << >>) =>
        /\ Len(output) = last.len
        /\ first_line = last.first
        /\ current_indent = last.depth
        /\ last.ret = 0

\* C9: the line-start flag is true exactly when the last byte emitted to the sink
\* was a newline or no byte has been emitted yet.
C9_FlagIffAtLineStart ==
    first_line <=> (output = << >> \/ Ends(output, NL))

\* C10: a line of the sink output with zero content bytes (a newline that follows the
\* previous newline or the stream start) holds no indentation bytes.
C10_BlankLinesBare ==
    \A p \in 1..Len(output) :
        (/\ ~indented[p]
         /\ output[p] = NL
         /\ PrevContent(p) = 0 \/ output[PrevContent(p)] = NL) =>
            PrevContent(p) = p - 1

\* C11: with step 0, whatever more()/less() calls are mixed with the writes, no
\* indentation is ever emitted: the sink holds the written inputs byte for byte.
C11_ZeroStep ==
    indent_step = 0 =>
        /\ current_indent = 0
        /\ output = written
        /\ \A p \in 1..Len(output) : ~indented[p]

C11_Witness ==
    /\ indent_step = 0
    /\ mores = 2
    /\ WriteOk
    /\ last.first
    /\ writes = 2
    /\ written = <<97, NL, NL, 97>>

\* C12: on a sink that accepts every byte, write returns the number of input bytes
\* (segment bytes and newlines); the indentation bytes it emits are not counted.
C12_ReturnsInputLength ==
    WriteOk =>
        /\ last.ret = Len(last.s)
        /\ last.ret = Cardinality({p \in 1..Len(EmittedMarks) : ~EmittedMarks[p]})
        /\ Len(Emitted) >= last.ret

C12_Witness ==
    /\ WriteOk
    /\ last.s = <<97, NL, 97>>
    /\ last.first
    /\ last.depth = 2
    /\ last.ret = 3
    /\ Len(Emitted) = 3 + 4 * SymLen

\* the byte strings a write hands to the sink, call by call, when no call fails
IndentChunks(depth) == [i \in 1..depth |-> Utf8(indent_symbol)]

RECURSIVE LineChunks(_, _, _)
LineChunks(segs, i, depth) ==
    IF i > Len(segs) THEN << >>
    ELSE <<(<<NL>>)>>
             \o (IF segs[i] # << >> THEN IndentChunks(depth) \o <<segs[i]>> ELSE << >>)
             \o LineChunks(segs, i + 1, depth)

WriteChunks(first, depth, s) ==
    (IF first THEN IndentChunks(depth) ELSE << >>)
        \o <<split(s)[1]>> \o LineChunks(split(s), 2, depth)

RECURSIVE Concat(_, _)
Concat(chunks, k) == IF k = 0 THEN << >> ELSE Concat(chunks, k - 1) \o chunks[k]

\* C13: when the k-th sink call of a write fails, the write returns that failure at
\* once: the sink keeps what the k - 1 calls before it emitted and gets nothing more,
\* and depth is unchanged; a failing flush returns the failure and changes nothing.
C13_FailureStopsWrite ==
    [][/\ (last'.op = "write" /\ last'.ret < 0) =>
            /\ -last'.ret <= Len(WriteChunks(first_line, current_indent, last'.s))
            /\ output' = output \o Concat(WriteChunks(first_line, current_indent,
                                                       last'.s), -last'.ret - 1)
            /\ current_indent' = current_indent
       /\ (last'.op = "flush" /\ last'.ret < 0) =>
            /\ output' = output
            /\ current_indent' = current_indent
            /\ first_line' = first_line]_vars

C13_Witness ==
    /\ last.op = "write"
    /\ last.ret = -6
    /\ last.s = <<97, NL, 97>>
    /\ last.depth = 2
    /\ last.first
    /\ last.len > 0
    /\ Len(output) = last.len + 3 * SymLen + 2

\* C14: increase() and decrease() emit no byte and leave the line-start flag, step
\* and symbol unchanged; the depth they set is the length of the next indentation.
C14_DepthCallsOnlySetDepth ==
    [][/\ last'.op \in {"more", "less"} =>
            /\ output' = output
            /\ indented' = indented
            /\ first_line' = first_line
            /\ indent_step' = indent_step
            /\ indent_symbol' = indent_symbol
       /\ (last.op \in {"more", "less"} /\ last'.op = "write" /\ last'.ret >= 0
              /\ first_line) =>
            SubSeq(output', Len(output) + 1, Len(output) + current_indent * SymLen)
                = Indentation(current_indent)]_vars

C14_Witness ==
    /\ last.op = "less"
    /\ last.depth = 2
    /\ current_indent = 1
    /\ first_line
    /\ Ends(output, NL)
    /\ writes = 1

\* C15: depth starts at 0 with the line-start flag set and changes only in
\* increase() and decrease(): write and flush, succeeding or failing, leave depth,
\* step and symbol unchanged, and flush emits no byte and leaves the flag unchanged.
C15_OnlyDepthCallsChangeDepth ==
    /\ [](last.op = "new" => (current_indent = 0 /\ first_line))
    /\ [][/\ current_indent' # current_indent => last'.op \in {"more", "less"}
          /\ last'.op \in {"write", "flush"} =>
               /\ current_indent' = current_indent
               /\ indent_step' = indent_step
               /\ indent_symbol' = indent_symbol
          /\ last'.op = "flush" =>
               /\ output' = output
               /\ indented' = indented
               /\ first_line' = first_line]_vars

C15_Witness ==
    /\ last.op = "flush"
    /\ last.ret < 0
    /\ last.prev = <<97, NL>>
    /\ current_indent = 2
    /\ first_line
    /\ Len(output) = 2 + SymLen

\* C16: indentation appears in the sink only at the start of a line: no indentation
\* byte follows a content byte of the same line.
C16_IndentOnlyAtLineStart ==
    \A p \in 1..Len(output) :
        indented[p] => (PrevContent(p) = 0 \/ output[PrevContent(p)] = NL)

\* C17: in every reachable state, for every input s and split point i, write(s)
\* gives the same sink bytes and the same flag as write(s[..i]); write(s[i..]).
C17_ChunkingIndependent ==
    \A s \in StringsUpTo(Content, MaxChunk) : \A i \in 0..Len(s) :
        LET whole == WriteRun(output, indented, first_line, current_indent,
                              indent_symbol, s, 0)
            head == WriteRun(output, indented, first_line, current_indent,
                             indent_symbol, SubSeq(s, 1, i), 0)
            tail == WriteRun(head.out, head.ind, head.first, current_indent,
                             indent_symbol, SubSeq(s, i + 1, Len(s)), 0)
        IN  /\ whole.out = tail.out
            /\ whole.first = tail.first

\* the sink bytes that are not indentation, in order
ContentBytes ==
    LET idx == {p \in 1..Len(output) : ~indented[p]}
    IN  [k \in 1..Cardinality(idx) |->
            output[CHOOSE p \in idx : Cardinality({q \in idx : q <= p}) = k]]

\* C18: on a sink that accepts every byte, the sink bytes without the indentation
\* the writer inserted are the concatenation of all write inputs, in call order.
C18_ContentPreserved ==
    /\ ContentBytes = written
    /\ WriteOk => SubSeq(written, Len(written) - Len(last.s) + 1, Len(written)) = last.s

C18_Witness ==
    /\ WriteOk
    /\ writes = 2
    /\ written = <<97, NL, NL, 97>>
    /\ last.s = <<NL, 97>>
    /\ Len(output) = 4 + 3 * SymLen

\* C19 as stated: increase() immediately followed by decrease() leaves depth at the
\* value it had before the pair, in every reachable state.
C19_MoreThenLessRestores ==
    [][(last.op = "more" /\ last'.op = "less") => current_indent' = last.depth]_vars

\* C19 amended: increase() immediately followed by decrease() leaves depth at the
\* value it had before the pair when depth + step <= 255 before the pair; when
\* increase() saturates, the pair leaves depth at 255 - step.
C19_MoreThenLessRestoresBelowMax ==
    [][(last.op = "more" /\ last'.op = "less") =>
          /\ last.depth + indent_step <= 255 => current_indent' = last.depth
          /\ last.depth + indent_step > 255 => current_indent' = 255 - indent_step]_vars

C19_Witness ==
    /\ last.op = "less"
    /\ indent_step = 200
    /\ last.depth = 200
    /\ current_indent = 0

====
